---- MODULE Spec2Model ----
(***************************************************************************)
(* mcp-aws: the credential resolver (AWSClient), the sessions it builds    *)
(* and the memoized accessor of the LangChain tool layer.                   *)
(*                                                                         *)
(* A Python str is a sequence of one-character strings; None and an unset  *)
(* environment variable are values that are no such sequence.              *)
(***************************************************************************)
EXTENDS Naturals, Sequences, FiniteSets, TLC

VARIABLES
    environ,    \* os.environ restricted to the four AWS_* variables
    args,       \* the keyword arguments of the AWSClient(...) call under examination
    client,     \* an AWSClient constructed directly (test fixture, server._client)
    cache,      \* the value memoized by @lru_cache for _get_client()
    built,      \* how many times _get_client() has run AWSClient()
    firstInst,  \* the instance the first LangChain tool invocation received
    last,       \* the most recent boto3.Session(...) call and what asked for it
    threads,    \* each thread inside _get_client(): where it is and the instance it holds
    insts,      \* two AWSClient instances constructed side by side
    given,      \* the keyword arguments each of the two was constructed with
    calls,      \* the clients each of the two has handed out so far
    run,        \* the most recent adapter or tool invocation: what it did and how it ended
    store,      \* the S3 objects: (bucket, key) -> bytes
    puts,       \* the content of the last successful put_object to each (bucket, key)
    fetched     \* what the most recent get_object returned

concVars == <<threads>>
pairVars == <<insts, given, calls>>
opsVars == <<run>>
s3Vars == <<store, puts, fetched>>
others == <<concVars, pairVars, opsVars, s3Vars>>

vars == <<environ, args, client, cache, built, firstInst, last, others>>

----------------------------------------------------------------------------
(* Bounds and sample inputs *)

MaxLen == 3

Whitespace == {" ", "\t"}
Alphabet == Whitespace \cup {"a"}

StrsUpTo(n) == UNION {[1..k -> Alphabet] : k \in 0..n}

None == <<"None">>
Unset == <<"Unset">>

OverrideSamples == {None, <<" ">>, <<" ", "a", " ">>}
EnvSamples == {Unset, <<>>, <<"\t", "a">>}
ServiceSamples == {"ec2", "s3"}

Fields == {"region", "access_key_id", "secret_access_key", "profile"}
EnvVars == {"AWS_REGION", "AWS_ACCESS_KEY_ID", "AWS_SECRET_ACCESS_KEY", "AWS_PROFILE"}

EnvVarOf(f) ==
    CASE f = "region" -> "AWS_REGION"
      [] f = "access_key_id" -> "AWS_ACCESS_KEY_ID"
      [] f = "secret_access_key" -> "AWS_SECRET_ACCESS_KEY"
      [] f = "profile" -> "AWS_PROFILE"

DefaultRegion == <<"u", "s", "-", "e", "a", "s", "t", "-", "1">>

----------------------------------------------------------------------------
(* Python semantics used by client.py *)

\* truth value of an Optional[str]: None and "" are falsy
Truthy(x) == x # None /\ x # <<>>

\* (a slip: the environment value is preferred whenever it is non-empty)
PyOrEnvFirst(x, y) == IF Truthy(y) THEN y ELSE x

\* x or y
PyOr(x, y) == IF Truthy(x) THEN x ELSE y

\* (a slip: the default is dropped)
EnvGetNoDefault(env, key, default) == IF env[key] = Unset THEN <<>> ELSE env[key]

\* os.environ.get(key, default)
EnvGet(env, key, default) == IF env[key] = Unset THEN default ELSE env[key]

RECURSIVE LStrip(_)
LStrip(s) == IF s # <<>> /\ Head(s) \in Whitespace THEN LStrip(Tail(s)) ELSE s

RECURSIVE RStrip(_)
RStrip(s) ==
    IF s # <<>> /\ s[Len(s)] \in Whitespace
    THEN RStrip(SubSeq(s, 1, Len(s) - 1))
    ELSE s

\* (a slip: lstrip() in place of strip())
StripLeftOnly(s) == LStrip(s)

\* str.strip()
Strip(s) == RStrip(LStrip(s))

----------------------------------------------------------------------------
(* AWSClient *)

NoObject == [id |-> <<"none", 0>>]

\* AWSClient.__init__: the four assignments of lines 27-34
AWSClient_init(id, region, access_key_id, secret_access_key, profile, env) ==
    [id |-> id,
     region |-> Strip(PyOr(region, EnvGet(env, "AWS_REGION", DefaultRegion))),
     access_key_id |-> Strip(PyOr(access_key_id, EnvGet(env, "AWS_ACCESS_KEY_ID", <<>>))),
     secret_access_key |->
         Strip(PyOr(secret_access_key, EnvGet(env, "AWS_SECRET_ACCESS_KEY", <<>>))),
     profile |-> Strip(PyOr(profile, EnvGet(env, "AWS_PROFILE", <<>>)))]

\* boto3.Session(...) called without a key pair (lines 45 and 46)
NoKeys(profile_name, region_name) ==
    [aws_access_key_id |-> None,
     aws_secret_access_key |-> None,
     profile_name |-> profile_name,
     region_name |-> region_name]

\* boto3.Session(...) called with the key pair (lines 39-43)
StaticKeys(self) ==
    [aws_access_key_id |-> self.access_key_id,
     aws_secret_access_key |-> self.secret_access_key,
     profile_name |-> None,
     region_name |-> self.region]

\* (a slip: "or" in place of "and" in the test of line 38)
sessionEitherKey(self) ==
    IF Truthy(self.access_key_id) \/ Truthy(self.secret_access_key) THEN StaticKeys(self)
    ELSE IF Truthy(self.profile) THEN NoKeys(self.profile, self.region)
    ELSE NoKeys(None, self.region)

\* (a slip: the profile test of line 44 placed before the key test of line 38)
sessionProfileFirst(self) ==
    IF Truthy(self.profile) THEN NoKeys(self.profile, self.region)
    ELSE IF Truthy(self.access_key_id) /\ Truthy(self.secret_access_key) THEN StaticKeys(self)
    ELSE NoKeys(None, self.region)

\* (a slip: region_name left out of the call of line 45)
sessionProfileNoRegion(self) ==
    IF Truthy(self.access_key_id) /\ Truthy(self.secret_access_key) THEN StaticKeys(self)
    ELSE IF Truthy(self.profile) THEN NoKeys(self.profile, None)
    ELSE NoKeys(None, self.region)

\* (a slip: the profile passed on line 46 although it is empty)
sessionAmbientWithProfile(self) ==
    IF Truthy(self.access_key_id) /\ Truthy(self.secret_access_key) THEN StaticKeys(self)
    ELSE NoKeys(self.profile, self.region)

\* the keyword arguments AWSClient.session passes to boto3.Session (None: not passed)
session(self) ==
    IF Truthy(self.access_key_id) /\ Truthy(self.secret_access_key) THEN StaticKeys(self)
    ELSE IF Truthy(self.profile) THEN NoKeys(self.profile, self.region)
    ELSE NoKeys(None, self.region)

\* (a slip: the S3 client is always built for the default region)
get_client_s3_default(self, service) ==
    [service |-> service,
     session |-> IF service = "s3"
                 THEN [session(self) EXCEPT !.region_name = DefaultRegion]
                 ELSE session(self)]

\* AWSClient.get_client: self.session().client(service)
get_client(self, service) == [service |-> service, session |-> session(self)]

\* the authentication mode of a session, derived from what it was built with
Mode(s) ==
    IF s.aws_access_key_id # None \/ s.aws_secret_access_key # None THEN "static"
    ELSE IF s.profile_name # None THEN "profile"
    ELSE "ambient"

----------------------------------------------------------------------------
(* langchain_tools._get_client: @lru_cache on a function of no arguments *)

SingletonId(n) == <<"lru", n>>

\* (a slip: the @lru_cache decorator left out)
get_client_uncached(c, env, n) ==
    [obj |-> AWSClient_init(SingletonId(n + 1), None, None, None, None, env),
     built |-> n + 1,
     hit |-> FALSE]

\* one call of _get_client() with memo c after n constructions: the instance it
\* returns and the number of constructions afterwards
lru_get_client(c, env, n) ==
    IF c = NoObject
    THEN [obj |-> AWSClient_init(SingletonId(n + 1), None, None, None, None, env),
          built |-> n + 1,
          hit |-> FALSE]
    ELSE [obj |-> c, built |-> n, hit |-> TRUE]

----------------------------------------------------------------------------
(* State *)

NoArgs == [g \in Fields |-> None]
NoCall == [op |-> "none"]

Call(op, self, service, hit) ==
    [op |-> op, self |-> self, session |-> session(self), service |-> service, hit |-> hit]

\* the threads of the host that may run a tool at the same time
Threads == {"t1", "t2"}

\* the two instances of the side-by-side construction
Names == {"A", "B"}

\* the S3 objects looked at
Slots == {<<"b1", "k1">>, <<"b1", "k2">>, <<"b2", "k1">>}

Missing == <<"NoSuchKey">>
NoRun == [op |-> "none"]
NoFetch == [op |-> "none"]

\* nothing constructed directly, empty lru_cache, no session built yet
CoreIdle ==
    /\ args = NoArgs
    /\ client = NoObject
    /\ cache = NoObject
    /\ built = 0
    /\ firstInst = NoObject
    /\ last = NoCall

ConcIdle == threads = [t \in Threads |-> [pc |-> "idle", obj |-> NoObject]]

PairIdle ==
    /\ insts = [i \in Names |-> NoObject]
    /\ given = [i \in Names |-> NoArgs]
    /\ calls = [i \in Names |-> {}]

OpsIdle == run = NoRun

S3Idle ==
    /\ store = [s \in Slots |-> Missing]
    /\ puts = [s \in Slots |-> None]
    /\ fetched = NoFetch

Init ==
    /\ environ \in [EnvVars -> EnvSamples]
    /\ CoreIdle
    /\ ConcIdle
    /\ PairIdle
    /\ OpsIdle
    /\ S3Idle

\* the host process sets or unsets one AWS_* environment variable
SetEnv(k, v) ==
    /\ environ[k] # v
    /\ environ' = [environ EXCEPT ![k] = v]
    /\ UNCHANGED <<args, client, cache, built, firstInst, last>>
    /\ UNCHANGED others

\* AWSClient(region=r, access_key_id=a, secret_access_key=s, profile=p)
Construct(r, a, s, p) ==
    /\ client = NoObject
    /\ client' = AWSClient_init(<<"direct", 1>>, r, a, s, p, environ)
    /\ UNCHANGED <<environ, args, cache, built, firstInst, last>>
    /\ UNCHANGED others

\* (a slip: session() resolves the fields again from the environment)
CallSessionRefreshing ==
    /\ client # NoObject
    /\ client' = AWSClient_init(client.id, None, None, None, None, environ)
    /\ last' = Call("session", client', None, FALSE)
    /\ UNCHANGED <<environ, args, cache, built, firstInst>>
    /\ UNCHANGED others

\* client.session() on the directly constructed instance
CallSession ==
    /\ client # NoObject
    /\ last' = Call("session", client, None, FALSE)
    /\ UNCHANGED <<environ, args, client, cache, built, firstInst>>
    /\ UNCHANGED others

\* client.get_client(service) on the directly constructed instance
CallGetClient(service) ==
    /\ client # NoObject
    /\ last' = Call("get_client", client, get_client(client, service).service, FALSE)
    /\ UNCHANGED <<environ, args, client, cache, built, firstInst>>
    /\ UNCHANGED others

\* one LangChain tool invocation: _get_client(), then the operation adapter
\* asks the instance for the client of its service
ToolInvoke(service) ==
    LET got == lru_get_client(cache, environ, built) IN
    /\ cache' = got.obj
    /\ built' = got.built
    /\ firstInst' = IF firstInst = NoObject THEN got.obj ELSE firstInst
    /\ last' = Call("tool", got.obj, get_client(got.obj, service).service, got.hit)
    /\ UNCHANGED <<environ, args, client>>
    /\ UNCHANGED others

Next ==
    \/ \E k \in EnvVars, v \in EnvSamples : SetEnv(k, v)
    \/ \E r, a, s, p \in OverrideSamples : Construct(r, a, s, p)
    \/ CallSession
    \/ \E service \in ServiceSamples : CallGetClient(service)
    \/ \E service \in ServiceSamples : ToolInvoke(service)

Spec == Init /\ [][Next]_vars

----------------------------------------------------------------------------
(* Resolution of one field at a time, over every string up to MaxLen *)

OptStrs == StrsUpTo(MaxLen) \cup {None}
EnvStrs == StrsUpTo(MaxLen) \cup {Unset}

InitResolve ==
    /\ \E f \in Fields, o \in OptStrs, e \in EnvStrs :
         /\ args = [g \in Fields |-> IF g = f THEN o ELSE None]
         /\ environ = [k \in EnvVars |-> IF k = EnvVarOf(f) THEN e ELSE Unset]
    /\ client = NoObject
    /\ cache = NoObject
    /\ built = 0
    /\ firstInst = NoObject
    /\ last = NoCall
    /\ ConcIdle
    /\ PairIdle
    /\ OpsIdle
    /\ S3Idle

\* (a slip: the constructor checks the credentials by building a session)
ConstructGivenEager ==
    /\ client = NoObject
    /\ client' = AWSClient_init(<<"direct", 1>>, args["region"], args["access_key_id"],
                                args["secret_access_key"], args["profile"], environ)
    /\ last' = Call("session", client', None, FALSE)
    /\ UNCHANGED <<environ, args, cache, built, firstInst>>
    /\ UNCHANGED others

\* AWSClient(**args)
ConstructGiven ==
    /\ client = NoObject
    /\ client' = AWSClient_init(<<"direct", 1>>, args["region"], args["access_key_id"],
                                args["secret_access_key"], args["profile"], environ)
    /\ UNCHANGED <<environ, args, cache, built, firstInst, last>>
    /\ UNCHANGED others

NextResolve ==
    \/ ConstructGiven
    \/ CallSession

SpecResolve == InitResolve /\ [][NextResolve]_vars

----------------------------------------------------------------------------
(* _get_client() entered by several threads. functools.lru_cache looks the   *)
(* key up, calls the wrapped function on a miss with no lock held, and then  *)
(* stores the result unless the key has appeared meanwhile; it returns the   *)
(* result it computed either way.                                            *)

\* the variables the host changes while the tools run
ConcEnvVars == {"AWS_REGION", "AWS_PROFILE"}

InitConc ==
    /\ environ = [k \in EnvVars |-> Unset]
    /\ CoreIdle
    /\ ConcIdle
    /\ PairIdle
    /\ OpsIdle
    /\ S3Idle

\* a tool invocation on thread t enters _get_client(): the cache lookup
Lookup(t) ==
    /\ threads[t].pc = "idle"
    /\ threads' = [threads EXCEPT ![t] =
           IF cache # NoObject THEN [pc |-> "done", obj |-> cache]
           ELSE [pc |-> "miss", obj |-> NoObject]]
    /\ UNCHANGED <<environ, args, client, cache, built, firstInst, last>>
    /\ UNCHANGED <<pairVars, opsVars, s3Vars>>

\* after a miss, thread t runs the wrapped function: AWSClient()
CallWrapped(t) ==
    /\ threads[t].pc = "miss"
    /\ threads' = [threads EXCEPT ![t] =
           [pc |-> "built",
            obj |-> AWSClient_init(SingletonId(built + 1), None, None, None, None, environ)]]
    /\ built' = built + 1
    /\ UNCHANGED <<environ, args, client, cache, firstInst, last>>
    /\ UNCHANGED <<pairVars, opsVars, s3Vars>>

\* thread t stores its result unless another thread has stored one, and
\* returns its own result to the tool
StoreResult(t) ==
    /\ threads[t].pc = "built"
    /\ cache' = IF cache = NoObject THEN threads[t].obj ELSE cache
    /\ threads' = [threads EXCEPT ![t].pc = "done"]
    /\ UNCHANGED <<environ, args, client, built, firstInst, last>>
    /\ UNCHANGED <<pairVars, opsVars, s3Vars>>

\* the tool on thread t returns; the thread is free for another invocation
Return(t) ==
    /\ threads[t].pc = "done"
    /\ threads' = [threads EXCEPT ![t] = [pc |-> "idle", obj |-> NoObject]]
    /\ UNCHANGED <<environ, args, client, cache, built, firstInst, last>>
    /\ UNCHANGED <<pairVars, opsVars, s3Vars>>

NextConc ==
    \/ \E k \in ConcEnvVars, v \in EnvSamples : SetEnv(k, v)
    \/ \E t \in Threads : Lookup(t)
    \/ \E t \in Threads : CallWrapped(t)
    \/ \E t \in Threads : StoreResult(t)
    \/ \E t \in Threads : Return(t)

SpecConc == InitConc /\ [][NextConc]_vars

\* C11: however the tool invocations of several threads interleave, first
\* uses included, _get_client() constructs at most one AWSClient and all the
\* invocations hold the same instance.
C11_OneInstanceUnderRace ==
    /\ built <= 1
    /\ \A t, u \in Threads :
          (threads[t].pc = "done" /\ threads[u].pc = "done") => threads[t].obj = threads[u].obj

----------------------------------------------------------------------------
(* Operation adapters and the two tool layers. What the SDK answers (a      *)
(* failure of session or client creation, the outcome of each API call,     *)
(* whether the log group has a stream) is an input of the invocation.       *)

Ok == "ok"

Ec2Adapters == {"list_instances", "start_instance", "stop_instance", "describe_instance"}
S3Adapters == {"list_buckets", "list_objects", "get_object", "put_object"}
SecretsAdapters == {"list_secrets", "get_secret", "create_secret"}
LambdaAdapters == {"list_functions", "invoke"}
CloudwatchAdapters == {"list_log_groups", "get_logs"}
StsAdapters == {"get_caller_identity"}
EcrAdapters == {"list_repositories"}
Route53Adapters == {"list_hosted_zones"}
CloudformationAdapters == {"list_stacks"}

Adapters ==
    Ec2Adapters \cup S3Adapters \cup SecretsAdapters \cup LambdaAdapters
        \cup CloudwatchAdapters \cup StsAdapters \cup EcrAdapters \cup Route53Adapters
        \cup CloudformationAdapters

\* the literal each adapter function passes to client.get_client(...)
ServiceArg(a) ==
    CASE a \in Ec2Adapters -> "ec2"
      [] a \in S3Adapters -> "s3"
      [] a \in SecretsAdapters -> "secretsmanager"
      [] a \in LambdaAdapters -> "lambda"
      [] a \in CloudwatchAdapters -> "logs"
      [] a \in StsAdapters -> "sts"
      [] a \in EcrAdapters -> "ecr"
      [] a \in Route53Adapters -> "route53"
      [] a \in CloudformationAdapters -> "cloudformation"

KnownServices ==
    {"ec2", "s3", "secretsmanager", "lambda", "logs", "sts", "ecr", "route53",
     "cloudformation", "iam"}

\* the first SDK method an adapter calls on its client
FirstApi(a, log_stream) ==
    CASE a \in {"list_instances", "describe_instance"} -> "describe_instances"
      [] a = "start_instance" -> "start_instances"
      [] a = "stop_instance" -> "stop_instances"
      [] a = "list_buckets" -> "list_buckets"
      [] a = "list_objects" -> "list_objects_v2"
      [] a = "get_object" -> "get_object"
      [] a = "put_object" -> "put_object"
      [] a = "list_secrets" -> "list_secrets"
      [] a = "get_secret" -> "get_secret_value"
      [] a = "create_secret" -> "create_secret"
      [] a = "list_functions" -> "list_functions"
      [] a = "invoke" -> "invoke"
      [] a = "list_log_groups" -> "describe_log_groups"
      [] a = "get_logs" ->
            IF Truthy(log_stream) THEN "get_log_events" ELSE "describe_log_streams"
      [] a = "get_caller_identity" -> "get_caller_identity"
      [] a = "list_repositories" -> "describe_repositories"
      [] a = "list_hosted_zones" -> "list_hosted_zones"
      [] a = "list_stacks" -> "list_stacks"

\* botocore.exceptions raised by an API call
SdkFaults == {"ClientError", "NoCredentialsError"}

\* what the SDK does during one invocation
Oracles ==
    [session : {Ok, "ProfileNotFound"},
     client : {Ok, "NoRegionError"},
     sdk : [1..2 -> {Ok} \cup SdkFaults],
     streams : BOOLEAN]

Returned(v) == [kind |-> "returned", error |-> Ok, value |-> v]
Raised(e) == [kind |-> "raised", error |-> e, value |-> None]
ErrorString(e) == [kind |-> "error_string", error |-> e, value |-> None]

\* boto3.Session(profile_name=...) fails when the profile is not configured
SessionFault(self, f) == IF session(self).profile_name # None THEN f.session ELSE Ok

\* Session.client(service) fails on a service botocore does not know, or as the
\* SDK decides
ClientFault(service, f) ==
    IF service \notin KnownServices THEN "UnknownServiceError" ELSE f.client

\* (a slip: get_client wraps whatever the SDK raises in an error of its own)
get_client_wrapping(self, service, f) ==
    LET sf == SessionFault(self, f)
        sdk == IF sf # Ok THEN sf ELSE ClientFault(service, f)
    IN  [ev |-> "get_client",
         service |-> service,
         session |-> session(self),
         sdk |-> sdk,
         raised |-> IF sdk # Ok THEN "RuntimeError" ELSE Ok]

\* one call of AWSClient.get_client(service): the session it builds, what the
\* SDK raised on the way (sdk) and what reaches the caller (raised)
get_client_call(self, service, f) ==
    LET sf == SessionFault(self, f)
        sdk == IF sf # Ok THEN sf ELSE ClientFault(service, f)
    IN  [ev |-> "get_client",
         service |-> service,
         session |-> session(self),
         sdk |-> sdk,
         raised |-> sdk]

SdkEvent(api, outcome) == [ev |-> "sdk", api |-> api, outcome |-> outcome]

\* (a slip: the record reports the default region, not the instance's)
IdentityDefaultRegion(self) ==
    [region |-> DefaultRegion, account |-> "Account", arn |-> "Arn", user_id |-> "UserId"]

\* the record sts.get_caller_identity returns
Identity(self) ==
    [region |-> self.region, account |-> "Account", arn |-> "Arn", user_id |-> "UserId"]

\* what an adapter returns when every call succeeded
Value(a, self) == IF a = "get_caller_identity" THEN Identity(self) ELSE [of |-> a]

\* get_logs reads the events after it has asked for the latest stream
SecondCall(a, log_stream, f) == a = "get_logs" /\ ~Truthy(log_stream) /\ f.streams

\* (a slip: a failed API call is tried a second time)
RunAdapterRetrying(self, a, log_stream, f) ==
    LET gc == get_client_call(self, ServiceArg(a), f)
        e1 == SdkEvent(FirstApi(a, log_stream), f.sdk[1])
        e2 == SdkEvent(FirstApi(a, log_stream), f.sdk[2])
    IN  IF gc.raised # Ok THEN [trace |-> <<gc>>, outcome |-> Raised(gc.raised)]
        ELSE IF e1.outcome = Ok THEN [trace |-> <<gc, e1>>, outcome |-> Returned(Value(a, self))]
        ELSE IF e2.outcome = Ok
        THEN [trace |-> <<gc, e1, e2>>, outcome |-> Returned(Value(a, self))]
        ELSE [trace |-> <<gc, e1, e2>>, outcome |-> Raised(e2.outcome)]

\* (a slip: a client is asked for before each API call)
RunAdapterClientPerCall(self, a, log_stream, f) ==
    LET gc == get_client_call(self, ServiceArg(a), f)
        e1 == SdkEvent(FirstApi(a, log_stream), f.sdk[1])
        e2 == SdkEvent("get_log_events", f.sdk[2])
    IN  IF gc.raised # Ok THEN [trace |-> <<gc>>, outcome |-> Raised(gc.raised)]
        ELSE IF e1.outcome # Ok THEN [trace |-> <<gc, e1>>, outcome |-> Raised(e1.outcome)]
        ELSE IF ~SecondCall(a, log_stream, f)
        THEN [trace |-> <<gc, e1>>, outcome |-> Returned(Value(a, self))]
        ELSE IF e2.outcome # Ok
        THEN [trace |-> <<gc, e1, gc, e2>>, outcome |-> Raised(e2.outcome)]
        ELSE [trace |-> <<gc, e1, gc, e2>>, outcome |-> Returned(Value(a, self))]

\* one call of an adapter function on the instance self: the calls it makes, in
\* order, and how it ends. Nothing is caught: the first failure ends the call.
RunAdapter(self, a, log_stream, f) ==
    LET gc == get_client_call(self, ServiceArg(a), f)
        e1 == SdkEvent(FirstApi(a, log_stream), f.sdk[1])
        e2 == SdkEvent("get_log_events", f.sdk[2])
    IN  IF gc.raised # Ok THEN [trace |-> <<gc>>, outcome |-> Raised(gc.raised)]
        ELSE IF e1.outcome # Ok THEN [trace |-> <<gc, e1>>, outcome |-> Raised(e1.outcome)]
        ELSE IF ~SecondCall(a, log_stream, f)
        THEN [trace |-> <<gc, e1>>, outcome |-> Returned(Value(a, self))]
        ELSE IF e2.outcome # Ok
        THEN [trace |-> <<gc, e1, e2>>, outcome |-> Raised(e2.outcome)]
        ELSE [trace |-> <<gc, e1, e2>>, outcome |-> Returned(Value(a, self))]

\* server.py: each @mcp.tool and the adapter function it calls
ServerTools ==
    [ec2_list_instances |-> "list_instances",
     ec2_start_instance |-> "start_instance",
     ec2_stop_instance |-> "stop_instance",
     ec2_describe_instance |-> "describe_instance",
     s3_list_buckets |-> "list_buckets",
     s3_list_objects |-> "list_objects",
     s3_get_object |-> "get_object",
     s3_put_object |-> "put_object",
     secrets_list |-> "list_secrets",
     secrets_get |-> "get_secret",
     secrets_create |-> "create_secret",
     lambda_list_functions |-> "list_functions",
     lambda_invoke |-> "invoke",
     cloudwatch_list_log_groups |-> "list_log_groups",
     cloudwatch_get_logs |-> "get_logs",
     aws_status |-> "get_caller_identity"]

\* langchain_tools.py: each @tool and the adapter function it calls
LangChainTools ==
    [aws_ec2_list |-> "list_instances",
     aws_ec2_status |-> "describe_instance",
     aws_ec2_start |-> "start_instance",
     aws_ec2_stop |-> "stop_instance",
     aws_s3_list |-> "list_objects",
     aws_s3_list_buckets |-> "list_buckets",
     aws_s3_get |-> "get_object",
     aws_s3_put |-> "put_object",
     aws_secrets_get |-> "get_secret",
     aws_secrets_list |-> "list_secrets",
     aws_secrets_create |-> "create_secret",
     aws_logs_tail |-> "get_logs",
     aws_lambda_list |-> "list_functions",
     aws_lambda_invoke |-> "invoke",
     aws_iam_whoami |-> "get_caller_identity",
     aws_status |-> "get_caller_identity",
     aws_ecr_list |-> "list_repositories",
     aws_route53_list |-> "list_hosted_zones",
     aws_cloudformation_list |-> "list_stacks"]

\* the exception classes the except clauses of a server tool name
ServerCatches(tool) ==
    IF tool \in {"ec2_list_instances", "aws_status"}
    THEN {"ClientError", "NoCredentialsError"}
    ELSE {"ClientError"}

\* the exception classes the except clauses of a LangChain tool name
LangChainCatches(tool) == IF tool = "aws_status" THEN {"Exception"} ELSE {}

\* does an except clause for these classes take the error
Catches(handlers, error) == "Exception" \in handlers \/ error \in handlers

\* a tool body: the adapter call inside try/except, a caught error turned
\* into the string the tool returns
ToolOutcome(handlers, r) ==
    IF r.outcome.kind = "raised" /\ Catches(handlers, r.outcome.error)
    THEN ErrorString(r.outcome.error)
    ELSE r.outcome

\* the log_stream arguments tried (the argument exists for get_logs alone)
LogStreams(a) == IF a = "get_logs" THEN {None, <<>>, <<"a">>} ELSE {None}

OpsEnvs ==
    {[k \in EnvVars |-> Unset],
     [k \in EnvVars |-> IF k = "AWS_PROFILE" THEN <<"\t", "a">> ELSE Unset],
     [k \in EnvVars |-> IF k = "AWS_PROFILE" THEN Unset ELSE <<"\t", "a">>]}

Invocation(op, name, a, self, r, outcome) ==
    [op |-> op, name |-> name, adapter |-> a, self |-> self,
     trace |-> r.trace, outcome |-> outcome]

InitOps ==
    /\ environ \in OpsEnvs
    /\ CoreIdle
    /\ ConcIdle
    /\ PairIdle
    /\ OpsIdle
    /\ S3Idle

\* server.py is imported: _client = AWSClient()
ImportServer ==
    /\ client = NoObject
    /\ client' = AWSClient_init(<<"server", 1>>, None, None, None, None, environ)
    /\ UNCHANGED <<environ, args, cache, built, firstInst, last>>
    /\ UNCHANGED others

\* client.get_client(service) called directly
GetClientCall(service, f) ==
    LET gc == get_client_call(client, service, f) IN
    /\ client # NoObject
    /\ run = NoRun
    /\ run' = Invocation("get_client", service, None, client, [trace |-> <<gc>>],
                         IF gc.raised # Ok THEN Raised(gc.raised)
                         ELSE Returned(get_client(client, service)))
    /\ UNCHANGED <<environ, args, client, cache, built, firstInst, last>>
    /\ UNCHANGED <<concVars, pairVars, s3Vars>>

\* an adapter function called directly on the instance
AdapterCall(a, log_stream, f) ==
    LET r == RunAdapter(client, a, log_stream, f) IN
    /\ client # NoObject
    /\ run = NoRun
    /\ run' = Invocation("adapter", a, a, client, r, r.outcome)
    /\ UNCHANGED <<environ, args, client, cache, built, firstInst, last>>
    /\ UNCHANGED <<concVars, pairVars, s3Vars>>

\* a tool of the MCP server is called
ServerTool(tool, log_stream, f) ==
    LET a == ServerTools[tool]
        r == RunAdapter(client, a, log_stream, f)
    IN  /\ client # NoObject
        /\ run = NoRun
        /\ run' = Invocation("server", tool, a, client, r,
                             ToolOutcome(ServerCatches(tool), r))
        /\ UNCHANGED <<environ, args, client, cache, built, firstInst, last>>
        /\ UNCHANGED <<concVars, pairVars, s3Vars>>

\* a LangChain tool is called
LangChainTool(tool, log_stream, f) ==
    LET a == LangChainTools[tool]
        got == lru_get_client(cache, environ, built)
        r == RunAdapter(got.obj, a, log_stream, f)
    IN  /\ run = NoRun
        /\ cache' = got.obj
        /\ built' = got.built
        /\ firstInst' = IF firstInst = NoObject THEN got.obj ELSE firstInst
        /\ run' = Invocation("langchain", tool, a, got.obj, r,
                             ToolOutcome(LangChainCatches(tool), r))
        /\ UNCHANGED <<environ, args, client, last>>
        /\ UNCHANGED <<concVars, pairVars, s3Vars>>

\* the invocation is over: its outcome has gone to the caller
ReturnToCaller ==
    /\ run # NoRun
    /\ run' = NoRun
    /\ UNCHANGED <<environ, args, client, cache, built, firstInst, last>>
    /\ UNCHANGED <<concVars, pairVars, s3Vars>>

NextOps ==
    \/ ImportServer
    \/ ReturnToCaller
    \/ \E service \in ServiceSamples \cup {"bogus"}, f \in Oracles : GetClientCall(service, f)
    \/ \E a \in Adapters, f \in Oracles :
         \E log_stream \in LogStreams(a) : AdapterCall(a, log_stream, f)
    \/ \E tool \in DOMAIN ServerTools, f \in Oracles :
         \E log_stream \in LogStreams(ServerTools[tool]) : ServerTool(tool, log_stream, f)
    \/ \E tool \in DOMAIN LangChainTools, f \in Oracles :
         \E log_stream \in LogStreams(LangChainTools[tool]) : LangChainTool(tool, log_stream, f)

SpecOps == InitOps /\ [][NextOps]_vars

----------------------------------------------------------------------------
(* Two AWSClient instances side by side (the test fixture builds its own     *)
(* instance next to the module-level ones), their calls interleaved.         *)

PairId(i) == <<"pair", i>>

\* the keyword arguments tried for each of the two
PairArgs == [Fields -> {None, <<"b">>}]

InitPair ==
    /\ environ \in OpsEnvs
    /\ CoreIdle
    /\ ConcIdle
    /\ PairIdle
    /\ OpsIdle
    /\ S3Idle

\* (a slip: the four fields are class attributes, so a construction sets them
\* for every instance there is)
ConstructPairShared(i, a) ==
    /\ insts[i] = NoObject
    /\ insts' = [j \in Names |->
                   IF j = i \/ insts[j] # NoObject
                   THEN AWSClient_init(PairId(j), a["region"], a["access_key_id"],
                                       a["secret_access_key"], a["profile"], environ)
                   ELSE insts[j]]
    /\ given' = [given EXCEPT ![i] = a]
    /\ UNCHANGED <<environ, args, client, cache, built, firstInst, last, calls>>
    /\ UNCHANGED <<concVars, opsVars, s3Vars>>

\* i = AWSClient(**a)
ConstructPair(i, a) ==
    /\ insts[i] = NoObject
    /\ insts' = [insts EXCEPT ![i] =
                   AWSClient_init(PairId(i), a["region"], a["access_key_id"],
                                  a["secret_access_key"], a["profile"], environ)]
    /\ given' = [given EXCEPT ![i] = a]
    /\ UNCHANGED <<environ, args, client, cache, built, firstInst, last, calls>>
    /\ UNCHANGED <<concVars, opsVars, s3Vars>>

\* i.session(), noted among the calls of i under the name "session()"
PairSession(i) ==
    /\ insts[i] # NoObject
    /\ calls' = [calls EXCEPT ![i] =
                   @ \cup {[service |-> "session()", session |-> session(insts[i])]}]
    /\ UNCHANGED <<environ, args, client, cache, built, firstInst, last, insts, given>>
    /\ UNCHANGED <<concVars, opsVars, s3Vars>>

\* i.get_client(service)
PairGetClient(i, service) ==
    /\ insts[i] # NoObject
    /\ calls' = [calls EXCEPT ![i] = @ \cup {get_client(insts[i], service)}]
    /\ UNCHANGED <<environ, args, client, cache, built, firstInst, last, insts, given>>
    /\ UNCHANGED <<concVars, opsVars, s3Vars>>

NextPair ==
    \/ \E i \in Names, a \in PairArgs : ConstructPair(i, a)
    \/ \E i \in Names : PairSession(i)
    \/ \E i \in Names, service \in ServiceSamples : PairGetClient(i, service)

SpecPair == InitPair /\ [][NextPair]_vars

----------------------------------------------------------------------------
(* s3.put_object and s3.get_object against the objects of S3. A body is the  *)
(* UTF-8 encoding of the text, a sequence of bytes written in hexadecimal.   *)

\* the texts put: empty, ASCII, and with a character of two bytes
Contents == {<<>>, <<"a">>, <<"é">>, <<"a", "é">>}

\* str.encode("utf-8")
RECURSIVE Utf8Encode(_)
Utf8Encode(s) ==
    IF s = <<>> THEN <<>>
    ELSE (IF s[1] = "é" THEN <<"c3", "a9">> ELSE <<"61">>) \o Utf8Encode(Tail(s))

\* (a slip: the body is read as Latin-1, one character for each byte)
RECURSIVE Latin1Decode(_)
Latin1Decode(b) ==
    IF b = <<>> THEN <<>>
    ELSE <<CASE b[1] = "61" -> "a" [] b[1] = "c3" -> "Ã" [] b[1] = "a9" -> "©">>
             \o Latin1Decode(Tail(b))

\* bytes.decode("utf-8")
RECURSIVE Utf8Decode(_)
Utf8Decode(b) ==
    IF b = <<>> THEN <<>>
    ELSE IF b[1] = "c3" THEN <<"é">> \o Utf8Decode(Tail(Tail(b)))
    ELSE <<"a">> \o Utf8Decode(Tail(b))

Fetch(op, slot, content, outcome) ==
    [op |-> op, slot |-> slot, content |-> content, outcome |-> outcome]

InitS3 ==
    /\ environ = [k \in EnvVars |-> Unset]
    /\ CoreIdle
    /\ ConcIdle
    /\ PairIdle
    /\ OpsIdle
    /\ S3Idle

\* s3.put_object(client, bucket, key, content); ok: the SDK call succeeded
put_object(slot, content, ok) ==
    /\ store' = IF ok THEN [store EXCEPT ![slot] = Utf8Encode(content)] ELSE store
    /\ puts' = IF ok THEN [puts EXCEPT ![slot] = content] ELSE puts
    /\ fetched' = Fetch("put_object", slot, content,
                        IF ok THEN Returned(<<"Successfully uploaded">>)
                        ELSE Raised("ClientError"))
    /\ UNCHANGED <<environ, args, client, cache, built, firstInst, last>>
    /\ UNCHANGED <<concVars, pairVars, opsVars>>

\* s3.get_object(client, bucket, key); ok: the SDK call succeeded, which it
\* cannot where there is no object
get_object(slot, ok) ==
    /\ fetched' = Fetch("get_object", slot, None,
                        IF ok /\ store[slot] # Missing
                        THEN Returned(Utf8Decode(store[slot]))
                        ELSE Raised("ClientError"))
    /\ UNCHANGED <<environ, args, client, cache, built, firstInst, last>>
    /\ UNCHANGED <<concVars, pairVars, opsVars, store, puts>>

NextS3 ==
    \/ \E slot \in Slots, content \in Contents, ok \in BOOLEAN : put_object(slot, content, ok)
    \/ \E slot \in Slots, ok \in BOOLEAN : get_object(slot, ok)

SpecS3 == InitS3 /\ [][NextS3]_vars

----------------------------------------------------------------------------
(* cloudwatch.get_logs in detail: the requests it sends, with their          *)
(* parameters, against the streams a log group holds.                         *)

Stream(name, ts, events) == [logStreamName |-> name, lastEventTimestamp |-> ts, events |-> events]

Event(ts, msg) == [timestamp |-> ts, message |-> msg]

\* the log groups looked at: empty, one stream, and two streams where either
\* the first or the second by name has the latest event
LogGroups ==
    {{},
     {Stream(<<"s", "1">>, 1, <<Event(1, "x")>>)},
     {Stream(<<"s", "1">>, 1, <<Event(1, "x")>>), Stream(<<"s", "2">>, 3, <<Event(2, "y"), Event(3, "z")>>)},
     {Stream(<<"s", "1">>, 5, <<Event(4, "v"), Event(5, "w")>>), Stream(<<"s", "2">>, 3, <<Event(3, "z")>>)}}

\* the log_stream arguments tried: absent, empty, and two names
LogStreamArgs == {None, <<>>, <<"s", "1">>, <<"s", "2">>}

LogLimits == {1, 2}

\* a stream of the group that sorts first under the request
RECURSIVE OrderStreams(_, _, _)
OrderStreams(group, orderBy, descending) ==
    IF group = {} THEN <<>>
    ELSE LET Key(s) == IF orderBy = "LastEventTime" THEN s.lastEventTimestamp
                       ELSE IF s.logStreamName = <<"s", "1">> THEN 1 ELSE 2
             first == CHOOSE s \in group : \A o \in group :
                          IF descending THEN Key(s) >= Key(o) ELSE Key(s) <= Key(o)
         IN  <<first>> \o OrderStreams(group \ {first}, orderBy, descending)

\* the CloudWatch Logs answer to describe_log_streams
DescribeLogStreams(group, req) ==
    LET all == OrderStreams(group, req.orderBy, req.descending)
        n == IF Len(all) < req.limit THEN Len(all) ELSE req.limit
    IN  [logStreams |-> SubSeq(all, 1, n)]

\* the CloudWatch Logs answer to get_log_events: the latest events of the
\* stream, at most limit of them; a stream the group does not hold is an error
GetLogEvents(group, req) ==
    IF \E s \in group : s.logStreamName = req.logStreamName
    THEN LET s == CHOOSE x \in group : x.logStreamName = req.logStreamName
             k == IF Len(s.events) < req.limit THEN 0 ELSE Len(s.events) - req.limit
         IN  [error |-> Ok, events |-> SubSeq(s.events, k + 1, Len(s.events))]
    ELSE [error |-> "ClientError", events |-> <<>>]

DescribeRequest(log_group, orderBy, descending, limit) ==
    [ev |-> "sdk", api |-> "describe_log_streams", logGroupName |-> log_group,
     orderBy |-> orderBy, descending |-> descending, limit |-> limit]

EventsRequest(log_group, stream_name, limit) ==
    [ev |-> "sdk", api |-> "get_log_events", logGroupName |-> log_group,
     logStreamName |-> stream_name, limit |-> limit]

\* the list comprehension of the return statement
Projected(events) == [i \in DOMAIN events |-> Event(events[i].timestamp, events[i].message)]

\* reading the events of one stream, as the first (n = 1) or second (n = 2)
\* API call of the invocation
ReadEvents(before, group, log_group, stream_name, limit, f, n) ==
    LET req == EventsRequest(log_group, stream_name, limit)
        ans == GetLogEvents(group, req)
        err == IF f.sdk[n] # Ok THEN f.sdk[n] ELSE ans.error
    IN  [trace |-> before \o <<req>>,
         outcome |-> IF err # Ok THEN Raised(err) ELSE Returned(Projected(ans.events))]

\* (a slip: the streams are asked for in ascending order, oldest first)
get_logs_oldest(self, group, log_group, log_stream, limit, f) ==
    LET gc == get_client_call(self, "logs", f)
        req == DescribeRequest(log_group, "LastEventTime", FALSE, 1)
        streams == DescribeLogStreams(group, req)
    IN  IF gc.raised # Ok THEN [trace |-> <<gc>>, outcome |-> Raised(gc.raised)]
        ELSE IF Truthy(log_stream)
        THEN ReadEvents(<<gc>>, group, log_group, log_stream, limit, f, 1)
        ELSE IF f.sdk[1] # Ok THEN [trace |-> <<gc, req>>, outcome |-> Raised(f.sdk[1])]
        ELSE IF streams.logStreams # <<>>
        THEN ReadEvents(<<gc, req>>, group, log_group,
                        streams.logStreams[1].logStreamName, limit, f, 2)
        ELSE [trace |-> <<gc, req>>, outcome |-> Returned(<<>>)]

\* cloudwatch.get_logs(client, log_group, log_stream, limit) while the group
\* holds the streams of group
get_logs(self, group, log_group, log_stream, limit, f) ==
    LET gc == get_client_call(self, "logs", f)
        req == DescribeRequest(log_group, "LastEventTime", TRUE, 1)
        streams == DescribeLogStreams(group, req)
    IN  IF gc.raised # Ok THEN [trace |-> <<gc>>, outcome |-> Raised(gc.raised)]
        ELSE IF Truthy(log_stream)
        THEN ReadEvents(<<gc>>, group, log_group, log_stream, limit, f, 1)
        ELSE IF f.sdk[1] # Ok THEN [trace |-> <<gc, req>>, outcome |-> Raised(f.sdk[1])]
        ELSE IF streams.logStreams # <<>>
        THEN ReadEvents(<<gc, req>>, group, log_group,
                        streams.logStreams[1].logStreamName, limit, f, 2)
        ELSE [trace |-> <<gc, req>>, outcome |-> Returned(<<>>)]

LogOracles == {f \in Oracles : f.streams}

\* get_logs called on the module-level instance
GetLogs(group, log_stream, limit, f) ==
    LET r == get_logs(client, group, <<"g">>, log_stream, limit, f) IN
    /\ client # NoObject
    /\ run' = [op |-> "get_logs", group |-> group, log_stream |-> log_stream,
               limit |-> limit, self |-> client, trace |-> r.trace,
               outcome |-> r.outcome]
    /\ UNCHANGED <<environ, args, client, cache, built, firstInst, last>>
    /\ UNCHANGED <<concVars, pairVars, s3Vars>>

NextLogs ==
    \/ ImportServer
    \/ \E group \in LogGroups, log_stream \in LogStreamArgs, limit \in LogLimits,
          f \in LogOracles : GetLogs(group, log_stream, limit, f)

SpecLogs == InitOps /\ [][NextLogs]_vars

----------------------------------------------------------------------------
(* The LangChain tools that take a region argument: aws_ec2_list and         *)
(* aws_lambda_list.                                                           *)

\* the region arguments tried
RegionArgs == {None, <<"b">>, <<"e", "u">>}

\* the state arguments tried
StateArgs == {None, <<"r", "u", "n", "n", "i", "n", "g">>}

\* (a slip: a region that is given is honoured with an AWSClient of its own)
aws_ec2_list_regional(region, state, c, env, n, f) ==
    LET got == lru_get_client(c, env, n)
        self == IF Truthy(region)
                THEN AWSClient_init(<<"regional", 1>>, region, None, None, None, env)
                ELSE got.obj
        filters == IF Truthy(state)
                   THEN <<[Name |-> "instance-state-name", Values |-> <<state>>]>>
                   ELSE <<>>
        gc == get_client_call(self, "ec2", f)
        req == [ev |-> "sdk", api |-> "describe_instances", Filters |-> filters]
    IN  [got |-> got,
         self |-> self,
         trace |-> IF gc.raised # Ok THEN <<gc>> ELSE <<gc, req>>,
         outcome |-> IF gc.raised # Ok THEN Raised(gc.raised)
                     ELSE IF f.sdk[1] # Ok THEN Raised(f.sdk[1])
                     ELSE Returned([of |-> "list_instances"])]

\* aws_ec2_list(region, state) with memo c after n constructions: the instance
\* it works on, the calls it makes and how it ends
aws_ec2_list(region, state, c, env, n, f) ==
    LET got == lru_get_client(c, env, n)
        self == got.obj
        filters == IF Truthy(state)
                   THEN <<[Name |-> "instance-state-name", Values |-> <<state>>]>>
                   ELSE <<>>
        gc == get_client_call(self, "ec2", f)
        req == [ev |-> "sdk", api |-> "describe_instances", Filters |-> filters]
    IN  [got |-> got,
         self |-> self,
         trace |-> IF gc.raised # Ok THEN <<gc>> ELSE <<gc, req>>,
         outcome |-> IF gc.raised # Ok THEN Raised(gc.raised)
                     ELSE IF f.sdk[1] # Ok THEN Raised(f.sdk[1])
                     ELSE Returned([of |-> "list_instances"])]

\* aws_lambda_list(region); state is not among its arguments
aws_lambda_list(region, state, c, env, n, f) ==
    LET got == lru_get_client(c, env, n)
        self == got.obj
        gc == get_client_call(self, "lambda", f)
        req == [ev |-> "sdk", api |-> "list_functions"]
    IN  [got |-> got,
         self |-> self,
         trace |-> IF gc.raised # Ok THEN <<gc>> ELSE <<gc, req>>,
         outcome |-> IF gc.raised # Ok THEN Raised(gc.raised)
                     ELSE IF f.sdk[1] # Ok THEN Raised(f.sdk[1])
                     ELSE Returned([of |-> "list_functions"])]

RegionTools == {"aws_ec2_list", "aws_lambda_list"}

RegionToolEffect(tool, region, state, c, env, n, f) ==
    IF tool = "aws_ec2_list" THEN aws_ec2_list(region, state, c, env, n, f)
    ELSE aws_lambda_list(region, state, c, env, n, f)

RegionOracles == {f \in LogOracles : f.sdk[2] = Ok}

\* one of the two tools is called
RegionTool(tool, region, state, f) ==
    LET eff == RegionToolEffect(tool, region, state, cache, environ, built, f) IN
    /\ run = NoRun
    /\ cache' = eff.got.obj
    /\ built' = eff.got.built
    /\ firstInst' = IF firstInst = NoObject THEN eff.got.obj ELSE firstInst
    /\ run' = [op |-> "region_tool", tool |-> tool, region |-> region, state |-> state,
               before |-> [cache |-> cache, built |-> built], f |-> f, effect |-> eff]
    /\ UNCHANGED <<environ, args, client, last>>
    /\ UNCHANGED <<concVars, pairVars, s3Vars>>

NextRegion ==
    \/ ReturnToCaller
    \/ \E region \in RegionArgs, state \in StateArgs, f \in RegionOracles :
          RegionTool("aws_ec2_list", region, state, f)
    \/ \E region \in RegionArgs, f \in RegionOracles :
          RegionTool("aws_lambda_list", region, None, f)

SpecRegion == InitOps /\ [][NextRegion]_vars

----------------------------------------------------------------------------
(* The LangChain tool aws_secrets_list over the secrets of the account, in   *)
(* the order Secrets Manager lists them.                                      *)

SecretNames == {<<"a">>, <<"a", "b">>, <<"b">>}

\* the accounts looked at: every listing of distinct names
Vaults ==
    {v \in UNION {[1..k -> SecretNames] : k \in 0..Cardinality(SecretNames)} :
        \A i, j \in DOMAIN v : i # j => v[i] # v[j]}

FilterArgs == {None, <<>>, <<"a">>, <<"a", "b">>}

MaxResultsArgs == 1..3

\* an entry of the SecretList of a response
Secret(name) == [Name |-> name, ARN |-> <<"arn:">> \o name]

\* str.startswith
StartsWith(s, prefix) ==
    /\ Len(prefix) <= Len(s)
    /\ SubSeq(s, 1, Len(prefix)) = prefix

\* the Secrets Manager answer to list_secrets(MaxResults=n): the first page
ListSecretsPage(vault, n) ==
    [i \in 1..(IF Len(vault) < n THEN Len(vault) ELSE n) |-> Secret(vault[i])]

\* secrets.list_secrets(client, max_results): one list_secrets call, each
\* entry reduced to Name and ARN
list_secrets(self, vault, max_results, f) ==
    LET gc == get_client_call(self, "secretsmanager", f)
        req == [ev |-> "sdk", api |-> "list_secrets", MaxResults |-> max_results]
        page == ListSecretsPage(vault, max_results)
    IN  IF gc.raised # Ok THEN [trace |-> <<gc>>, outcome |-> Raised(gc.raised)]
        ELSE IF f.sdk[1] # Ok THEN [trace |-> <<gc, req>>, outcome |-> Raised(f.sdk[1])]
        ELSE [trace |-> <<gc, req>>,
              outcome |-> Returned([i \in DOMAIN page |->
                                       [Name |-> page[i].Name, ARN |-> page[i].ARN]])]

\* (a slip: the prefix is applied to the whole account and the result is cut
\* to max_results afterwards)
aws_secrets_list_filter_first(filter_name, max_results, self, vault, f) ==
    LET wanted == IF Truthy(filter_name)
                  THEN SelectSeq(vault, LAMBDA n : StartsWith(n, filter_name))
                  ELSE vault
    IN  list_secrets(self, wanted, max_results, f)

\* aws_secrets_list(filter_name, max_results) on the instance _get_client()
\* gave
aws_secrets_list(filter_name, max_results, self, vault, f) ==
    LET r == list_secrets(self, vault, max_results, f) IN
    IF r.outcome.kind = "returned" /\ Truthy(filter_name)
    THEN [r EXCEPT !.outcome =
            Returned(SelectSeq(r.outcome.value,
                               LAMBDA s : StartsWith(s.Name, filter_name)))]
    ELSE r

\* the tool is called
SecretsList(filter_name, max_results, vault, f) ==
    LET got == lru_get_client(cache, environ, built)
        r == aws_secrets_list(filter_name, max_results, got.obj, vault, f)
    IN  /\ run = NoRun
        /\ cache' = got.obj
        /\ built' = got.built
        /\ firstInst' = IF firstInst = NoObject THEN got.obj ELSE firstInst
        /\ run' = [op |-> "aws_secrets_list", filter_name |-> filter_name,
                   max_results |-> max_results, vault |-> vault, self |-> got.obj,
                   trace |-> r.trace, outcome |-> r.outcome]
        /\ UNCHANGED <<environ, args, client, last>>
        /\ UNCHANGED <<concVars, pairVars, s3Vars>>

NextSecrets ==
    \/ ReturnToCaller
    \/ \E filter_name \in FilterArgs, max_results \in MaxResultsArgs, vault \in Vaults,
          f \in RegionOracles : SecretsList(filter_name, max_results, vault, f)

SpecSecrets == InitOps /\ [][NextSecrets]_vars

----------------------------------------------------------------------------
(* Claims on the resolution of a field (SpecResolve) *)

Constructed == client # NoObject

\* C1, as stated: for each field, a non-null override (the empty string
\* included) is the resolved value once stripped, whatever the environment holds.
C1_AnyOverrideWins ==
    Constructed => \A f \in Fields : args[f] # None => client[f] = Strip(args[f])

\* C1, amended: for each field, a non-empty override (a whitespace-only one
\* included) is the resolved value once stripped, whatever the environment holds.
C1_NonEmptyOverrideWins ==
    Constructed => \A f \in Fields : Truthy(args[f]) => client[f] = Strip(args[f])

C1_Witness ==
    /\ Constructed
    /\ \E f \in Fields :
         /\ Truthy(args[f])
         /\ environ[EnvVarOf(f)] # Unset
         /\ Strip(environ[EnvVarOf(f)]) # <<>>
         /\ Strip(environ[EnvVarOf(f)]) # Strip(args[f])
         /\ client[f] = Strip(args[f])

\* C2: after construction the resolved region is never the empty string, and
\* every session built afterwards carries a non-empty region.
C2_RegionNeverEmpty ==
    /\ Constructed => client.region # <<>>
    /\ last.op # "none" => last.session.region_name # <<>>

NoEdgeWhitespace(s) == s = <<>> \/ (s[1] \notin Whitespace /\ s[Len(s)] \notin Whitespace)

\* C5: no resolved field starts or ends with whitespace, from either source.
C5_FieldsTrimmed ==
    Constructed => \A f \in Fields : NoEdgeWhitespace(client[f])

C5_Witness ==
    /\ Constructed
    /\ \E f \in Fields :
         /\ args[f] = None
         /\ environ[EnvVarOf(f)] # Unset
         /\ environ[EnvVarOf(f)] # <<>>
         /\ environ[EnvVarOf(f)][1] \in Whitespace
         /\ client[f] # <<>>
         /\ client[f] # environ[EnvVarOf(f)]

\* C6: with no region override and AWS_REGION not set, the resolved region is
\* exactly "us-east-1".
C6_DefaultRegion ==
    (Constructed /\ args["region"] = None /\ environ["AWS_REGION"] = Unset)
        => client.region = <<"u", "s", "-", "e", "a", "s", "t", "-", "1">>

C6_Witness ==
    /\ Constructed
    /\ args["region"] = None
    /\ environ["AWS_REGION"] = Unset
    /\ Len(client.region) = 9

\* C16: constructing an AWSClient always succeeds, whatever the override and
\* the environment hold (empty, blank or malformed values included): it yields
\* four strings and makes no session, client or SDK call; anything wrong with
\* a credential can show only at a later call.
C16_ConstructionNeverFails ==
    /\ [](client = NoObject => ENABLED ConstructGiven)
    /\ [][(client = NoObject /\ client' # NoObject) =>
            /\ last' = last
            /\ run' = run
            /\ \A f \in Fields : client'[f] \notin {None, Unset}]_vars

C16_Witness ==
    /\ client # NoObject
    /\ last = NoCall
    /\ client.region = <<>>
    /\ client.access_key_id = <<>>
    /\ client.secret_access_key = <<>>
    /\ client.profile = <<>>

----------------------------------------------------------------------------
(* Claims on session() and on the lifetime of an instance (Spec) *)

Called == last.op # "none"

\* C3: when exactly one of the two key fields is non-empty once trimmed,
\* session() passes no key to the session; it passes the profile name if the
\* resolved profile is non-empty and nothing but the region otherwise.
C3_PartialKeysNotStatic ==
    Called =>
        LET self == last.self
            onlyOne == (Strip(self.access_key_id) = <<>>) # (Strip(self.secret_access_key) = <<>>)
        IN  onlyOne =>
              /\ Mode(last.session) = (IF self.profile # <<>> THEN "profile" ELSE "ambient")
              /\ last.session = NoKeys(IF self.profile # <<>> THEN self.profile ELSE None,
                                       self.region)

C3_Witness ==
    /\ Called
    /\ last.self.access_key_id # <<>>
    /\ last.self.secret_access_key = <<>>
    /\ last.self.profile # <<>>
    /\ Mode(last.session) = "profile"

\* C4: when both resolved keys are non-empty, the session is built from the key
\* pair and the resolved region, and no profile name is passed, whether the
\* resolved profile is empty or not.
C4_BothKeysStatic ==
    Called =>
        LET self == last.self IN
        (self.access_key_id # <<>> /\ self.secret_access_key # <<>>) =>
            /\ Mode(last.session) = "static"
            /\ last.session.aws_access_key_id = self.access_key_id
            /\ last.session.aws_secret_access_key = self.secret_access_key
            /\ last.session.region_name = self.region
            /\ last.session.profile_name = None

C4_Witness ==
    /\ Called
    /\ last.self.access_key_id # <<>>
    /\ last.self.secret_access_key # <<>>
    /\ last.self.profile # <<>>
    /\ Mode(last.session) = "static"

\* C7: when both resolved keys are empty and the resolved profile is not, the
\* session is built with that profile name and the resolved region, and no key.
C7_ProfileBranch ==
    Called =>
        LET self == last.self IN
        (self.access_key_id = <<>> /\ self.secret_access_key = <<>> /\ self.profile # <<>>) =>
            /\ Mode(last.session) = "profile"
            /\ last.session.profile_name = self.profile
            /\ last.session.region_name = self.region
            /\ last.session.aws_access_key_id = None
            /\ last.session.aws_secret_access_key = None

C7_Witness ==
    /\ Called
    /\ last.self.access_key_id = <<>>
    /\ last.self.secret_access_key = <<>>
    /\ last.self.profile # <<>>
    /\ last.session.profile_name = last.self.profile

\* C8: when the resolved keys and profile are all empty, the session is built
\* with the resolved region only.
C8_AmbientBranch ==
    Called =>
        LET self == last.self IN
        (self.access_key_id = <<>> /\ self.secret_access_key = <<>> /\ self.profile = <<>>) =>
            /\ Mode(last.session) = "ambient"
            /\ last.session.region_name = self.region
            /\ last.session.profile_name = None
            /\ last.session.aws_access_key_id = None
            /\ last.session.aws_secret_access_key = None

C8_Witness ==
    /\ Called
    /\ last.self.access_key_id = <<>>
    /\ last.self.secret_access_key = <<>>
    /\ last.self.profile = <<>>
    /\ Mode(last.session) = "ambient"

\* C9: once an instance exists, no step (a session() or get_client() call, a
\* tool invocation, a change of the environment) changes its fields, and two
\* calls in a row on one instance select the same mode.
C9_FieldsImmutable ==
    [][/\ client # NoObject => client' = client
       /\ cache # NoObject => cache' = cache
       /\ (Called /\ last'.op # "none" /\ last'.self.id = last.self.id) =>
             /\ last'.self = last.self
             /\ Mode(last'.session) = Mode(last.session)]_vars

C9_Witness ==
    /\ client # NoObject
    /\ client.region = DefaultRegion
    /\ environ["AWS_REGION"] # Unset
    /\ client.profile = <<>>
    /\ environ["AWS_PROFILE"] # Unset
    /\ Strip(environ["AWS_PROFILE"]) # <<>>
    /\ last.op = "session"
    /\ last.self = client
    /\ Mode(last.session) = "ambient"

\* C10: over any sequence of tool invocations _get_client() constructs one
\* AWSClient, at the first invocation, and every invocation receives that
\* instance and builds its session from that instance's fields, whatever the
\* environment holds by then.
C10_SingletonOnce ==
    /\ built <= 1
    /\ (built = 0) <=> (cache = NoObject)
    /\ (built = 0) <=> (firstInst = NoObject)
    /\ last.op = "tool" =>
         /\ last.self = firstInst
         /\ last.self = cache
         /\ last.session = session(firstInst)

C10_Witness ==
    /\ last.op = "tool"
    /\ last.hit
    /\ built = 1
    /\ cache.region = DefaultRegion
    /\ environ["AWS_REGION"] # Unset
    /\ last.session.region_name = DefaultRegion

----------------------------------------------------------------------------
(* Claims on the adapters and the tool layers (SpecOps) *)

Ran == run # NoRun

\* C12: every tool of the tool layer (MCP server tool or LangChain tool) whose
\* AWS call fails with a client error or with "no credentials" returns an
\* error string and lets no exception reach the host.
C12_ToolsReturnErrorString ==
    (Ran /\ run.op \in {"server", "langchain"}) =>
        \A i \in DOMAIN run.trace :
            (run.trace[i].ev = "sdk" /\ run.trace[i].outcome \in SdkFaults) =>
                run.outcome.kind = "error_string"

\* C15: get_client catches nothing: whatever session creation or client
\* creation raises (unknown service, unknown profile, any SDK failure) reaches
\* the caller of get_client as it was raised, and the instance's fields are
\* the same afterwards.
C15_GetClientPropagates ==
    Ran =>
        LET gc == run.trace[1] IN
        /\ gc.ev = "get_client"
        /\ gc.raised = gc.sdk
        /\ (gc.sdk # Ok /\ run.op \in {"get_client", "adapter"}) =>
              run.outcome = Raised(gc.sdk)
        /\ run.op \in {"get_client", "adapter", "server"} => client = run.self
        /\ run.op = "langchain" => cache = run.self

C15_Witness ==
    /\ Ran
    /\ run.op = "get_client"
    /\ run.trace[1].sdk \in {"UnknownServiceError", "ProfileNotFound", "NoRegionError"}
    /\ run.outcome = Raised(run.trace[1].sdk)
    /\ client = run.self

\* C17: nothing retries: in one adapter or tool invocation each SDK call is
\* issued at most once, no call follows the first one that fails, and that
\* failure is what the caller gets (for get_logs, a failed
\* describe_log_streams means get_log_events is never called).
C17_NoRetry ==
    Ran =>
        LET tr == run.trace
            Failed(i) == IF tr[i].ev = "sdk" THEN tr[i].outcome # Ok ELSE tr[i].raised # Ok
            Error(i) == IF tr[i].ev = "sdk" THEN tr[i].outcome ELSE tr[i].raised
        IN  /\ \A i, j \in DOMAIN tr :
                 (i # j /\ tr[i].ev = "sdk" /\ tr[j].ev = "sdk") => tr[i].api # tr[j].api
            /\ \A i \in DOMAIN tr : Failed(i) =>
                 /\ i = Len(tr)
                 /\ run.outcome.kind \in {"raised", "error_string"}
                 /\ run.outcome.error = Error(i)

C17_Witness ==
    /\ Ran
    /\ run.adapter = "get_logs"
    /\ Len(run.trace) = 2
    /\ run.trace[2].api = "describe_log_streams"
    /\ run.trace[2].outcome \in SdkFaults
    /\ run.outcome.kind = "raised"
    /\ run.outcome.error = run.trace[2].outcome

\* C18: every adapter function calls get_client exactly once per invocation,
\* before anything else, with the service name of its module, on every path;
\* get_logs without a log stream issues its two SDK calls on that one client.
C18_OneGetClientPerAdapter ==
    (Ran /\ run.op # "get_client") =>
        LET tr == run.trace
            a == run.adapter
        IN  /\ Cardinality({i \in DOMAIN tr : tr[i].ev = "get_client"}) = 1
            /\ tr[1].ev = "get_client"
            /\ a \in {"list_instances", "start_instance", "stop_instance",
                      "describe_instance"} => tr[1].service = "ec2"
            /\ a \in {"list_buckets", "list_objects", "get_object", "put_object"} =>
                  tr[1].service = "s3"
            /\ a \in {"list_secrets", "get_secret", "create_secret"} =>
                  tr[1].service = "secretsmanager"
            /\ a \in {"list_functions", "invoke"} => tr[1].service = "lambda"
            /\ a \in {"list_log_groups", "get_logs"} => tr[1].service = "logs"
            /\ a = "get_caller_identity" => tr[1].service = "sts"
            /\ a = "list_repositories" => tr[1].service = "ecr"
            /\ a = "list_hosted_zones" => tr[1].service = "route53"
            /\ a = "list_stacks" => tr[1].service = "cloudformation"

C18_Witness ==
    /\ Ran
    /\ run.op = "adapter"
    /\ run.adapter = "get_logs"
    /\ Len(run.trace) = 3
    /\ run.trace[1].service = "logs"
    /\ run.trace[2].api = "describe_log_streams"
    /\ run.trace[3].api = "get_log_events"

\* C20: the "region" of the record sts.get_caller_identity returns equals the
\* resolved region of the AWSClient it was given, which is the region the
\* session of its STS client was built with.
C20_IdentityRegion ==
    (Ran /\ run.adapter = "get_caller_identity" /\ run.outcome.kind = "returned") =>
        /\ run.outcome.value.region = run.self.region
        /\ run.outcome.value.region = run.trace[1].session.region_name
        /\ run.trace[1].service = "sts"

C20_Witness ==
    /\ Ran
    /\ run.adapter = "get_caller_identity"
    /\ run.outcome.kind = "returned"
    /\ run.self.region # DefaultRegion
    /\ run.outcome.value.region = run.self.region

----------------------------------------------------------------------------
(* Claims on two instances side by side (SpecPair) *)

\* C13: the clients get_client hands out on one instance for different
\* service names, with any other calls in between, come from sessions with one
\* region, the instance's resolved region, and one authentication mode.
C13_SameRegionAndMode ==
    \A i \in Names : \A c, e \in calls[i] :
        /\ c.session.region_name = insts[i].region
        /\ c.session.region_name = e.session.region_name
        /\ Mode(c.session) = Mode(e.session)

C13_Witness ==
    \E i \in Names, j \in Names : \E c, e, s \in calls[i] :
        /\ i # j
        /\ c.service = "s3"
        /\ e.service = "ec2"
        /\ s.service = "session()"
        /\ insts[i].region # DefaultRegion
        /\ calls[j] # {}
        /\ insts[j].region # insts[i].region

\* C14: of two instances built with different overrides, in either order and
\* with their calls interleaved, each has the fields and the mode that its own
\* overrides and the environment give, and no construction or call on one
\* changes the fields of the other.
C14_NoLeakBetweenInstances ==
    /\ [](\A i \in Names : insts[i] # NoObject =>
            LET own == AWSClient_init(PairId(i), given[i]["region"],
                                      given[i]["access_key_id"],
                                      given[i]["secret_access_key"],
                                      given[i]["profile"], environ)
            IN  /\ insts[i] = own
                /\ \A c \in calls[i] : c.session = session(own))
    /\ [][\A i \in Names : insts[i] # NoObject => insts'[i] = insts[i]]_vars

C14_Witness ==
    /\ insts["A"] # NoObject
    /\ insts["B"] # NoObject
    /\ given["A"] # given["B"]
    /\ insts["A"].region # insts["B"].region
    /\ calls["A"] # {}
    /\ calls["B"] # {}
    /\ \E c \in calls["A"], e \in calls["B"] : Mode(c.session) # Mode(e.session)

----------------------------------------------------------------------------
(* Claims on the S3 objects (SpecS3) *)

\* C19: a get_object that succeeds returns exactly the content of the last
\* successful put_object to that bucket and key, whatever was put to other
\* keys in between; right after a successful put the object holds that content.
C19_GetReturnsLastPut ==
    /\ (fetched.op = "get_object" /\ fetched.outcome.kind = "returned") =>
          /\ puts[fetched.slot] # None
          /\ fetched.outcome.value = puts[fetched.slot]
    /\ (fetched.op = "put_object" /\ fetched.outcome.kind = "returned") =>
          /\ puts[fetched.slot] = fetched.content
          /\ Utf8Decode(store[fetched.slot]) = fetched.content
    /\ \A s \in Slots : puts[s] = None <=> store[s] = Missing

C19_Witness ==
    /\ fetched.op = "get_object"
    /\ fetched.outcome.kind = "returned"
    /\ fetched.outcome.value = <<"a", "é">>
    /\ \E s \in Slots :
         /\ s # fetched.slot
         /\ s[1] = fetched.slot[1]
         /\ puts[s] \notin {None, <<"a", "é">>}

----------------------------------------------------------------------------
(* Claims on get_logs (SpecLogs) *)

\* C21: get_logs without a log stream first asks for the one most recent
\* stream of the group (by last event time, descending, limit 1) and only then
\* reads the events of that stream; for a group without streams it returns the
\* empty list and never calls get_log_events; with a non-empty log stream it
\* reads that stream at once and never calls describe_log_streams.
C21_GetLogsOrder ==
    (Ran /\ run.op = "get_logs" /\ Len(run.trace) >= 2) =>
        LET tr == run.trace IN
        IF Truthy(run.log_stream)
        THEN /\ Len(tr) = 2
             /\ tr[2].api = "get_log_events"
             /\ tr[2].logStreamName = run.log_stream
        ELSE /\ tr[2].api = "describe_log_streams"
             /\ tr[2].orderBy = "LastEventTime"
             /\ tr[2].descending
             /\ tr[2].limit = 1
             /\ Len(tr) <= 3
             /\ Len(tr) = 3 =>
                  /\ tr[3].api = "get_log_events"
                  /\ \E s \in run.group :
                       /\ s.logStreamName = tr[3].logStreamName
                       /\ \A o \in run.group :
                            o.lastEventTimestamp <= s.lastEventTimestamp
             /\ run.group = {} =>
                  /\ Len(tr) = 2
                  /\ run.outcome.kind = "returned" => run.outcome.value = <<>>
             /\ (run.group # {} /\ run.outcome.kind = "returned") => Len(tr) = 3

C21_Witness ==
    /\ Ran
    /\ run.op = "get_logs"
    /\ run.log_stream = <<>>
    /\ Cardinality(run.group) = 2
    /\ Len(run.trace) = 3
    /\ run.trace[2].api = "describe_log_streams"
    /\ run.trace[3].api = "get_log_events"
    /\ run.trace[3].logStreamName = <<"s", "1">>
    /\ run.outcome.kind = "returned"
    /\ Len(run.outcome.value) = 2

----------------------------------------------------------------------------
(* Claims on the region argument of the LangChain tools (SpecRegion) *)

\* C22: the region argument of aws_ec2_list and aws_lambda_list changes
\* nothing: called with any other region, all else and the environment equal,
\* the tool works on the same singleton instance, with the same resolved
\* region, and sends the same SDK request.
C22_RegionArgumentIgnored ==
    (Ran /\ run.op = "region_tool") =>
        /\ \A other \in RegionArgs :
             RegionToolEffect(run.tool, other, run.state, run.before.cache, environ,
                              run.before.built, run.f) = run.effect
        /\ run.effect.self = cache
        /\ built = 1
        /\ run.effect.trace[1].session.region_name = cache.region
        /\ cache.region = Strip(EnvGet(environ, "AWS_REGION", DefaultRegion))

C22_Witness ==
    /\ Ran
    /\ run.op = "region_tool"
    /\ run.tool = "aws_ec2_list"
    /\ run.region = <<"b">>
    /\ run.before.built = 1
    /\ Len(run.effect.trace) = 2
    /\ run.effect.trace[1].session.region_name # run.region
    /\ run.effect.trace[2].Filters # <<>>
    /\ run.effect.outcome.kind = "returned"

----------------------------------------------------------------------------
(* Claims on aws_secrets_list (SpecSecrets) *)

\* C23: aws_secrets_list filters after the cut to max_results: it makes one
\* list_secrets call and returns, in the order received, exactly those of the
\* at most max_results secrets of that page whose Name starts with
\* filter_name; with an empty or absent filter_name it returns the page as is.
C23_FilterAfterTruncation ==
    (Ran /\ run.op = "aws_secrets_list" /\ run.outcome.kind = "returned") =>
        LET n == IF Len(run.vault) < run.max_results THEN Len(run.vault)
                 ELSE run.max_results
            kept == {i \in 1..n : Truthy(run.filter_name) =>
                                     StartsWith(run.vault[i], run.filter_name)}
            result == run.outcome.value
        IN  /\ Cardinality({i \in DOMAIN run.trace : run.trace[i].ev = "sdk"}) = 1
            /\ run.trace[2].api = "list_secrets"
            /\ run.trace[2].MaxResults = run.max_results
            /\ Len(result) = Cardinality(kept)
            /\ \A i \in DOMAIN result :
                 /\ \E k \in kept : result[i].Name = run.vault[k]
                 /\ result[i].ARN = <<"arn:">> \o result[i].Name
            /\ \A i, j \in DOMAIN result : \A k, l \in kept :
                 (i < j /\ result[i].Name = run.vault[k] /\ result[j].Name = run.vault[l])
                     => k < l
            /\ ~Truthy(run.filter_name) => Len(result) = n

\* fewer entries than max_results, here none, while a secret with the prefix
\* lies beyond the page
C23_Witness ==
    /\ Ran
    /\ run.op = "aws_secrets_list"
    /\ run.outcome.kind = "returned"
    /\ run.filter_name = <<"a">>
    /\ run.max_results = 1
    /\ run.outcome.value = <<>>
    /\ \E i \in DOMAIN run.vault :
         i > run.max_results /\ StartsWith(run.vault[i], run.filter_name)

====
